---------------------------- MODULE Spec2Model ----------------------------
(***************************************************************************)
(* A model of shapely's coordinate access engine (coordinates.py), its     *)
(* transform pipeline and its ring-orientation algorithms (cga.py,         *)
(* polygon.py).  Every operation is a pure function of its arguments; the  *)
(* state machine is a caller that holds one argument, applies one          *)
(* operation to it and keeps the outcome.                                  *)
(*                                                                         *)
(* Geometries are records                                                  *)
(*   [geom_type, has_z, coords, rings, geoms]                              *)
(* coords : the coordinate tuples of a Point / LineString / LinearRing     *)
(* rings  : the coordinate sequences of a Polygon's rings, exterior first  *)
(* geoms  : the children of a Multi* / GeometryCollection                  *)
(* Python's None is the record NoneGeom.  float64 values are integers      *)
(* (every value of the model is far below 2^53, except in signed_area,     *)
(* which rounds as a binary floating point format does) and the value NaN. *)
(***************************************************************************)
EXTENDS Integers, Sequences, FiniteSets, TLC

\* ------------------------------------------------------------------ bounds
\* longest batch (array of geometries) the caller passes
MaxBatch == 2
\* most interior rings of a generated Polygon
MaxHoles == 1
\* most children of a generated Multi* / GeometryCollection
MaxGeoms == 2
\* the Z value of the generated 3D coordinate at the grid's origin
ZBase == 7

\* the NaN of float64, the third column of a 2D geometry read with include_z
NaN == -999

\* the x and y values of generated coordinates
Ords == {0, 1}

\* ------------------------------------------------------------ sequences
RECURSIVE SeqsOf(_, _)
\* all sequences of exactly n elements of S
SeqsOf(S, n) == IF n = 0 THEN {<<>>}
                ELSE {Append(s, x) : s \in SeqsOf(S, n - 1), x \in S}

\* all sequences of at most n elements of S
SeqsUpTo(S, n) == UNION {SeqsOf(S, k) : k \in 0..n}

\* Python's seq[::-1]
Reverse(s) == [i \in 1..Len(s) |-> s[Len(s) + 1 - i]]

RECURSIVE Concat(_)
\* the concatenation of a sequence of sequences
Concat(ss) == IF ss = <<>> THEN <<>> ELSE Head(ss) \o Concat(Tail(ss))

RECURSIVE SumSeq(_)
SumSeq(s) == IF s = <<>> THEN 0 ELSE Head(s) + SumSeq(Tail(s))

\* ------------------------------------------------------------ geometries
Geom(t, z, c, r, g) ==
    [geom_type |-> t, has_z |-> z, coords |-> c, rings |-> r, geoms |-> g]

NoneGeom == Geom("None", FALSE, <<>>, <<>>, <<>>)

SimpleTypes == {"Point", "LineString", "LinearRing"}
CollectionTypes ==
    {"MultiPoint", "MultiLineString", "MultiPolygon", "GeometryCollection"}

\* a coordinate sequence has a third dimension when its tuples have three
\* components
HasZ(coords) == coords # <<>> /\ Len(coords[1]) = 3

\* "Rings are automatically closed": a ring whose last tuple differs from its
\* first gets the first appended, and so does a ring of only three tuples, so
\* that no ring has fewer than four
CloseRing(coords) ==
    IF coords = <<>> THEN coords
    ELSE IF Len(coords) = 3 \/ coords[1] # coords[Len(coords)]
         THEN Append(coords, coords[1])
         ELSE coords

Point(coords) == Geom("Point", HasZ(coords), coords, <<>>, <<>>)
LineString(coords) == Geom("LineString", HasZ(coords), coords, <<>>, <<>>)
LinearRing(coords) ==
    Geom("LinearRing", HasZ(coords), CloseRing(coords), <<>>, <<>>)

\* Polygon(shell, holes): shell and holes are coordinate sequences or
\* LinearRings; an empty shell gives POLYGON EMPTY
Polygon(shell, holes) ==
    IF shell = <<>> THEN Geom("Polygon", FALSE, <<>>, <<>>, <<>>)
    ELSE Geom("Polygon", HasZ(shell), <<>>,
              <<CloseRing(shell)>> \o [i \in 1..Len(holes) |-> CloseRing(holes[i])],
              <<>>)

Collection(t, geoms) == Geom(t, FALSE, <<>>, <<>>, geoms)

\* Polygon.exterior and Polygon.interiors, as LinearRings
exterior(polygon) ==
    IF polygon.rings = <<>> THEN LinearRing(<<>>)
    ELSE LinearRing(polygon.rings[1])

interiors(polygon) ==
    IF polygon.rings = <<>> THEN <<>>
    ELSE [i \in 1..(Len(polygon.rings) - 1) |-> LinearRing(polygon.rings[i + 1])]

RECURSIVE is_empty(_)
is_empty(g) ==
    CASE g.geom_type \in SimpleTypes -> g.coords = <<>>
      [] g.geom_type = "Polygon" -> g.rings = <<>>
      [] OTHER -> \A i \in 1..Len(g.geoms) : is_empty(g.geoms[i])

\* ------------------------------------------ arrays of geometries, buffers
\* What the caller passes as `geometry`: one Geometry or None ("scalar"), a
\* Python list or a numpy array of them.
Arg(container, items) == [container |-> container, items |-> items]

\* np.asarray(geometry, dtype=object): a 0-d array for a scalar, the same
\* object for an ndarray, a new array for a list
Ndim(arr) == IF arr.container = "scalar" THEN 0 ELSE 1

\* A coordinate buffer: its shape and its rows
Buffer(shape, rows) == [shape |-> shape, rows |-> rows]
Buffer2(rows, ncols) == Buffer(<<Len(rows), ncols>>, rows)

\* np.atleast_2d: a 0-d value becomes (1, 1), a vector of k values (1, k)
atleast_2d(coordinates) ==
    CASE Len(coordinates.shape) = 0 -> Buffer(<<1, 1>>, coordinates.rows)
      [] Len(coordinates.shape) = 1 ->
             Buffer(<<1, coordinates.shape[1]>>, coordinates.rows)
      [] OTHER -> coordinates

\* ------------------------------------------------- lib (the C extension)
RECURSIVE CountGeom(_)
\* the number of coordinate tuples of one geometry, by recursive descent
CountGeom(g) ==
    CASE g.geom_type = "None" -> 0
      [] g.geom_type \in SimpleTypes -> Len(g.coords)
      [] g.geom_type = "Polygon" ->
             SumSeq([i \in 1..Len(g.rings) |-> Len(g.rings[i])])
      [] OTHER -> SumSeq([i \in 1..Len(g.geoms) |-> CountGeom(g.geoms[i])])

lib_count_coordinates(arr) ==
    SumSeq([i \in 1..Len(arr.items) |-> CountGeom(arr.items[i])])

\* one coordinate tuple as a buffer row of 2 or 3 columns
Row(c, include_z) ==
    IF include_z
    THEN (IF Len(c) = 3 THEN c ELSE <<c[1], c[2], NaN>>)
    ELSE <<c[1], c[2]>>

RowsOf(coords, include_z) ==
    [i \in 1..Len(coords) |-> Row(coords[i], include_z)]

RECURSIVE GetGeom(_, _)
\* the rows of one geometry, depth first: own coordinates, exterior then
\* interiors, children in order
GetGeom(g, include_z) ==
    CASE g.geom_type = "None" -> <<>>
      [] g.geom_type \in SimpleTypes -> RowsOf(g.coords, include_z)
      [] g.geom_type = "Polygon" ->
             Concat([i \in 1..Len(g.rings) |-> RowsOf(g.rings[i], include_z)])
      [] OTHER ->
             Concat([i \in 1..Len(g.geoms) |-> GetGeom(g.geoms[i], include_z)])

lib_get_coordinates(arr, include_z) ==
    Buffer2(Concat([i \in 1..Len(arr.items) |-> GetGeom(arr.items[i], include_z)]),
            IF include_z THEN 3 ELSE 2)

\* for each row, the flat position (from 0) of the geometry it came from
lib_get_index(arr) ==
    Concat([i \in 1..Len(arr.items) |->
               [k \in 1..CountGeom(arr.items[i]) |-> i - 1]])

\* rows n+1.. of a sequence
Drop(rows, n) == SubSeq(rows, n + 1, Len(rows))

\* the coordinate tuple written from a row: 3 components only when the
\* geometry has a third dimension and the buffer has three columns
Tuple(row, dims3) == IF dims3 THEN row ELSE <<row[1], row[2]>>

TuplesOf(rows, n, dims3) == [i \in 1..n |-> Tuple(rows[i], dims3)]

RECURSIVE SetRings(_, _, _)
SetRings(rings, rows, dims3) ==
    IF rings = <<>> THEN <<>>
    ELSE <<TuplesOf(rows, Len(Head(rings)), dims3)>>
         \o SetRings(Tail(rings), Drop(rows, Len(Head(rings))), dims3)

RECURSIVE SetGeom(_, _, _)
RECURSIVE SetGeoms(_, _, _)
\* one geometry rebuilt from the first CountGeom(g) rows, in GetGeom's order
SetGeom(g, rows, ncols) ==
    LET dims3 == g.has_z /\ ncols = 3 IN
    CASE g.geom_type = "None" -> g
      [] g.geom_type \in SimpleTypes ->
             IF g.coords = <<>> THEN g
             ELSE [g EXCEPT !.has_z = dims3,
                            !.coords = TuplesOf(rows, Len(g.coords), dims3)]
      [] g.geom_type = "Polygon" ->
             IF g.rings = <<>> THEN g
             ELSE [g EXCEPT !.has_z = dims3,
                            !.rings = SetRings(g.rings, rows, dims3)]
      [] OTHER -> [g EXCEPT !.geoms = SetGeoms(g.geoms, rows, ncols)]

SetGeoms(geoms, rows, ncols) ==
    IF geoms = <<>> THEN <<>>
    ELSE <<SetGeom(Head(geoms), rows, ncols)>>
         \o SetGeoms(Tail(geoms), Drop(rows, CountGeom(Head(geoms))), ncols)

\* the array with every geometry's coordinates replaced from the buffer
lib_set_coordinates(arr, coordinates) ==
    [arr EXCEPT !.items = SetGeoms(arr.items, coordinates.rows, coordinates.shape[2])]


\* ------------------------------------------------- coordinates.py wrappers
Ok(v) == [exc |-> "none", value |-> v]
Raise(e) == [exc |-> e, value |-> <<>>]

\* `geometry_arr.item()` when the array is 0-d and the caller passed no
\* ndarray, the array itself otherwise
ItemOrArray(geometry, geometry_arr) ==
    IF Ndim(geometry_arr) = 0 /\ geometry.container # "ndarray"
    THEN Arg("scalar", geometry_arr.items)
    ELSE Arg("ndarray", geometry_arr.items)

\* a plausible slip: the size of the array instead of lib.count_coordinates
count_coordinates_size(geometry) == Len(geometry.items)

count_coordinates(geometry) == lib_count_coordinates(geometry)

\* a plausible slip: the flag is not handed on, so two columns always
get_coordinates_2d(geometry, include_z) == lib_get_coordinates(geometry, FALSE)

get_coordinates(geometry, include_z) == lib_get_coordinates(geometry, include_z)

\* a plausible slip: only a buffer that is too short is refused
set_coordinates_short(geometry, coordinates) ==
    LET coords2 == atleast_2d(coordinates) IN
    IF Len(coords2.shape) # 2
    THEN [exc |-> "ValueError", value |-> <<>>, geometry |-> geometry]
    ELSE IF coords2.shape[1] < lib_count_coordinates(geometry)
            \/ coords2.shape[2] \notin {2, 3}
    THEN [exc |-> "ValueError", value |-> <<>>, geometry |-> geometry]
    ELSE LET geometry_arr == lib_set_coordinates(geometry, coords2) IN
         [exc |-> "none", value |-> ItemOrArray(geometry, geometry_arr),
          geometry |-> IF geometry.container = "ndarray"
                       THEN geometry_arr ELSE geometry]

\* a plausible slip: the buffer is cut to two columns before it is written
set_coordinates_xy(geometry, coordinates) ==
    LET coords2 == atleast_2d(coordinates) IN
    IF Len(coords2.shape) # 2
    THEN [exc |-> "ValueError", value |-> <<>>, geometry |-> geometry]
    ELSE IF coords2.shape[1] # lib_count_coordinates(geometry)
            \/ coords2.shape[2] \notin {2, 3}
    THEN [exc |-> "ValueError", value |-> <<>>, geometry |-> geometry]
    ELSE LET geometry_arr ==
                 lib_set_coordinates(geometry, [coords2 EXCEPT !.shape[2] = 2]) IN
         [exc |-> "none", value |-> ItemOrArray(geometry, geometry_arr),
          geometry |-> IF geometry.container = "ndarray"
                       THEN geometry_arr ELSE geometry]

\* set_coordinates: the outcome, the value returned and the caller's
\* `geometry` object after the call (an ndarray is written in place)
set_coordinates(geometry, coordinates) ==
    LET coords2 == atleast_2d(coordinates) IN
    IF Len(coords2.shape) # 2
    THEN [exc |-> "ValueError", value |-> <<>>, geometry |-> geometry]
    ELSE IF coords2.shape[1] # lib_count_coordinates(geometry)
            \/ coords2.shape[2] \notin {2, 3}
    THEN [exc |-> "ValueError", value |-> <<>>, geometry |-> geometry]
    ELSE LET geometry_arr == lib_set_coordinates(geometry, coords2) IN
         [exc |-> "none", value |-> ItemOrArray(geometry, geometry_arr),
          geometry |-> IF geometry.container = "ndarray"
                       THEN geometry_arr ELSE geometry]


\* ------------------------------------------------- the mapping function
\* The caller's `transformation`, by what it does with its arguments:
\*   identity     returns them
\*   shift        adds 1 to every value
\*   drop_last    returns all but the last coordinate (x[:-1])
\*   xy_only      returns x and y and no z
\*   tolist       returns them as Python lists (.tolist())
\*   astype_int   returns them as integers
\*   raises       raises
\*   scalar_only  raises unless every argument is a single float
\*   mean         returns the mean of every axis (.mean())
Transformations ==
    {"identity", "shift", "drop_last", "xy_only", "tolist", "astype_int",
     "raises", "scalar_only", "mean"}

Plus1(v) == IF v = NaN THEN NaN ELSE v + 1
ShiftRow(row) == [j \in 1..Len(row) |-> Plus1(row[j])]
XY(row) == <<row[1], row[2]>>
AllButLast(rows) == SubSeq(rows, 1, Len(rows) - 1)

Ret(is_ndarray, dtype, shape, rows) ==
    [raised |-> FALSE, is_ndarray |-> is_ndarray, dtype |-> dtype,
     shape |-> shape, rows |-> rows]
Raised == [raised |-> TRUE, is_ndarray |-> FALSE, dtype |-> "none",
           shape |-> <<>>, rows |-> <<>>]

\* transformation(coords): coords an (N, k) float64 array
InvokeArray(kind, coords) ==
    CASE kind = "identity" -> Ret(TRUE, "float64", coords.shape, coords.rows)
      [] kind = "shift" ->
             Ret(TRUE, "float64", coords.shape,
                 [i \in 1..Len(coords.rows) |-> ShiftRow(coords.rows[i])])
      [] kind = "drop_last" ->
             Ret(TRUE, "float64",
                 <<Len(AllButLast(coords.rows)), coords.shape[2]>>,
                 AllButLast(coords.rows))
      [] kind = "xy_only" ->
             Ret(TRUE, "float64", <<coords.shape[1], 2>>,
                 [i \in 1..Len(coords.rows) |-> XY(coords.rows[i])])
      [] kind = "tolist" -> Ret(FALSE, "float64", coords.shape, coords.rows)
      [] kind = "astype_int" -> Ret(TRUE, "int64", coords.shape, coords.rows)
      [] kind = "mean" ->
             \* the mean of one coordinate is that coordinate; of none or several
             \* it is a vector of k values that is used by no constructor
             Ret(TRUE, "float64", <<coords.shape[2]>>,
                 IF Len(coords.rows) = 1 THEN coords.rows ELSE <<>>)
      [] OTHER -> Raised

\* np.array(transformation(*coords.T)).T: the function gets one vector per
\* axis, its results are stacked into an array
InvokeAxes(kind, coords) ==
    IF kind = "tolist"
    THEN Ret(TRUE, "float64", coords.shape, coords.rows)
    ELSE InvokeArray(kind, coords)

\* transformation(*c): the function gets the values of one coordinate
InvokeScalars(kind, c) ==
    CASE kind \in {"identity", "tolist", "scalar_only", "mean"} ->
             Ret(FALSE, "float64", <<Len(c)>>, <<c>>)
      [] kind = "shift" -> Ret(FALSE, "float64", <<Len(c)>>, <<ShiftRow(c)>>)
      [] kind = "xy_only" -> Ret(FALSE, "float64", <<2>>, <<XY(c)>>)
      [] kind = "astype_int" -> Ret(FALSE, "int64", <<Len(c)>>, <<c>>)
      [] OTHER -> Raised

\* one invocation of the caller's function: how it was called, the
\* coordinates it got (their shape and rows) and what it returned
Call(mode, coords, ret) ==
    [mode |-> mode, shape |-> coords.shape, rows |-> coords.rows,
     raised |-> ret.raised, ret |-> ret]

\* [transformation(*c) for c in coords]: one invocation per coordinate, none
\* after the first that raises.  As an array it has the shape (N, k'), and
\* (0,) when there is no coordinate
PerCoordinate(kind, coords) ==
    LET n == Len(coords.rows)
        r == [i \in 1..n |-> InvokeScalars(kind, coords.rows[i])]
        bad == {i \in 1..n : r[i].raised}
        first == CHOOSE i \in bad : \A j \in bad : i <= j
    IN  IF bad # {}
        THEN [ret |-> Raised,
              calls |-> [i \in 1..first |->
                            Call("scalars",
                                 Buffer(<<Len(coords.rows[i])>>, <<coords.rows[i]>>),
                                 r[i])]]
        ELSE [ret |-> Ret(TRUE,
                          IF n > 0 /\ r[1].dtype = "int64" THEN "int64" ELSE "float64",
                          IF n = 0 THEN <<0>> ELSE <<n, r[1].shape[1]>>,
                          [i \in 1..n |-> r[i].rows[1]]),
              calls |-> [i \in 1..n |->
                            Call("scalars",
                                 Buffer(<<Len(coords.rows[i])>>, <<coords.rows[i]>>),
                                 r[i])]]

\* The function the wrappers hand on: the caller's own (wrap "array"), or one
\* of the two lambdas around it (wrap "axes", wrap "scalars")
Wrapped(kind, wrap) == [kind |-> kind, wrap |-> wrap]

\* one call of the handed-on function: what it returns and the invocations of
\* the caller's function it made
CallWrapped(transformation, coords) ==
    CASE transformation.wrap = "array" ->
             LET r == InvokeArray(transformation.kind, coords) IN
             [ret |-> r, calls |-> <<Call("array", coords, r)>>]
      [] transformation.wrap = "axes" ->
             LET r == InvokeAxes(transformation.kind, coords) IN
             [ret |-> r, calls |-> <<Call("axes", coords, r)>>]
      [] OTHER -> PerCoordinate(transformation.kind, coords)

\* --------------------------------------------- transform, rebuild=False
Outcome(exc, value, calls) ==
    [exc |-> exc, value |-> value, calls |-> calls, retried |-> FALSE]

\* try: return first / except Exception: return second.  The second attempt
\* is made only when the first raised, and the function has then been invoked
\* in both
TryExcept(first, second) ==
    IF first.exc = "none" THEN first
    ELSE [second EXCEPT !.calls = first.calls \o second.calls,
                        !.retried = TRUE]

\* a plausible slip: the dtype of the returned array is not checked
_transform_nodtype(geometry, transformation, include_z) ==
    LET coordinates == lib_get_coordinates(geometry, include_z)
        r == CallWrapped(transformation, coordinates)
        new_coordinates == r.ret
    IN  IF new_coordinates.raised THEN Outcome("Exception", <<>>, r.calls)
        ELSE IF ~new_coordinates.is_ndarray THEN Outcome("ValueError", <<>>, r.calls)
        ELSE IF new_coordinates.shape # coordinates.shape
        THEN Outcome("ValueError", <<>>, r.calls)
        ELSE Outcome("none",
                     ItemOrArray(geometry,
                         lib_set_coordinates(geometry,
                             Buffer(new_coordinates.shape, new_coordinates.rows))),
                     r.calls)

\* a plausible slip: the new coordinates are written in reverse order
_transform_reversed(geometry, transformation, include_z) ==
    LET coordinates == lib_get_coordinates(geometry, include_z)
        r == CallWrapped(transformation, coordinates)
        new_coordinates == r.ret
    IN  IF new_coordinates.raised THEN Outcome("Exception", <<>>, r.calls)
        ELSE IF ~new_coordinates.is_ndarray THEN Outcome("ValueError", <<>>, r.calls)
        ELSE IF new_coordinates.dtype # "float64"
        THEN Outcome("ValueError", <<>>, r.calls)
        ELSE IF new_coordinates.shape # coordinates.shape
        THEN Outcome("ValueError", <<>>, r.calls)
        ELSE Outcome("none",
                     ItemOrArray(geometry,
                         lib_set_coordinates(geometry,
                             Buffer(new_coordinates.shape,
                                    Reverse(new_coordinates.rows)))),
                     r.calls)

\* _transform works on a copy of the array (np.array), so the caller's object
\* is not written; the checks come before lib.set_coordinates
_transform(geometry, transformation, include_z) ==
    LET coordinates == lib_get_coordinates(geometry, include_z)
        r == CallWrapped(transformation, coordinates)
        new_coordinates == r.ret
    IN  IF new_coordinates.raised THEN Outcome("Exception", <<>>, r.calls)
        ELSE IF ~new_coordinates.is_ndarray THEN Outcome("ValueError", <<>>, r.calls)
        ELSE IF new_coordinates.dtype # "float64"
        THEN Outcome("ValueError", <<>>, r.calls)
        ELSE IF new_coordinates.shape # coordinates.shape
        THEN Outcome("ValueError", <<>>, r.calls)
        ELSE Outcome("none",
                     ItemOrArray(geometry,
                         lib_set_coordinates(geometry,
                             Buffer(new_coordinates.shape, new_coordinates.rows))),
                     r.calls)

\* `except Exception` catches whatever the first _transform raised: the
\* function's own exception and the ValueError of the checks alike
_transform_multi_vec(geometry, transformation, include_z) ==
    TryExcept(_transform(geometry, Wrapped(transformation.kind, "axes"), include_z),
              _transform(geometry, Wrapped(transformation.kind, "scalars"), include_z))

\* ---------------------------------------------- transform, rebuild=True
\* type(geometry)(coordinates) for Point, LineString and LinearRing: the
\* geometry built from what the function returned, or the constructor's error
MakeSimple(geom_type, ret) ==
    LET n == IF Len(ret.shape) = 2 THEN ret.shape[1] ELSE Len(ret.rows)
        k == IF Len(ret.shape) = 2 THEN ret.shape[2] ELSE ret.shape[1]
        made == CASE geom_type = "Point" -> Point(ret.rows)
                  [] geom_type = "LineString" -> LineString(ret.rows)
                  [] OTHER -> LinearRing(ret.rows)
        enough == CASE geom_type = "Point" -> n = 1
                    [] geom_type = "LineString" -> n >= 2
                    [] OTHER -> Len(CloseRing(ret.rows)) >= 4
    IN  IF Len(ret.shape) = 2 /\ n = 0 THEN [exc |-> "none", value |-> made]
        ELSE IF Len(ret.shape) = 1 /\ k = 0 THEN [exc |-> "none", value |-> made]
        ELSE IF Len(ret.shape) = 1 /\ (geom_type # "Point" \/ n # 1)
        THEN [exc |-> "ConstructorError", value |-> NoneGeom]
        ELSE IF k \notin {2, 3} \/ ~enough
        THEN [exc |-> "ConstructorError", value |-> NoneGeom]
        ELSE [exc |-> "none", value |-> made]

\* one atomic part: its coordinates read, handed to the function, and the
\* part built from the result
\* type(geometry)(new_coordinates) on what the function returned
Rebuilt(geom_type, r) ==
    IF r.ret.raised THEN Outcome("Exception", NoneGeom, r.calls)
    ELSE Outcome(MakeSimple(geom_type, r.ret).exc,
                 MakeSimple(geom_type, r.ret).value, r.calls)

RebuildPart(part, transformation, include_z) ==
    Rebuilt(part.geom_type,
            CallWrapped(transformation,
                        get_coordinates(Arg("scalar", <<part>>), include_z)))

\* The outcomes of the elements of a sequence handled one after the other,
\* as a list comprehension or np.frompyfunc does: the first failure ends it,
\* and the function has been invoked for the elements up to that one
SeqOutcome(rs) ==
    LET bad == {i \in 1..Len(rs) : rs[i].exc # "none"}
        first == CHOOSE i \in bad : \A j \in bad : i <= j
        last == IF bad = {} THEN Len(rs) ELSE first
    IN  [exc |-> IF bad = {} THEN "none" ELSE rs[first].exc,
         value |-> IF bad = {} THEN [i \in 1..Len(rs) |-> rs[i].value] ELSE <<>>,
         calls |-> Concat([i \in 1..last |-> rs[i].calls]),
         retried |-> \E i \in 1..last : rs[i].retried]

\* the parts of a sequence one after the other, none after the first failure
RebuildParts(parts, transformation, include_z) ==
    SeqOutcome([i \in 1..Len(parts) |->
                   RebuildPart(parts[i], transformation, include_z)])

\* Polygon(shell, holes) on the rebuilt rings
RebuiltPolygon(r) ==
    IF r.exc # "none" THEN Outcome(r.exc, NoneGeom, r.calls)
    ELSE Outcome("none",
                 Polygon(r.value[1].coords,
                         [i \in 1..(Len(r.value) - 1) |-> r.value[i + 1].coords]),
                 r.calls)

\* a plausible slip: a Polygon rebuilt from its exterior alone
transform_rebuild_shell_only(geometry, transformation, include_z) ==
    IF geometry.geom_type \in SimpleTypes
    THEN RebuildPart(geometry, transformation, include_z)
    ELSE RebuiltPolygon(RebuildParts(<<exterior(geometry)>>, transformation,
                                     include_z))

transform_rebuild_single_part(geometry, transformation, include_z) ==
    IF geometry.geom_type \in SimpleTypes
    THEN RebuildPart(geometry, transformation, include_z)
    ELSE RebuiltPolygon(RebuildParts(<<exterior(geometry)>> \o interiors(geometry),
                                     transformation, include_z))

\* the try / except around one single part in _transform2_multi_vec
RebuildSinglePartMultiVec(geometry, kind, include_z) ==
    TryExcept(
        transform_rebuild_single_part(geometry, Wrapped(kind, "axes"), include_z),
        transform_rebuild_single_part(geometry, Wrapped(kind, "scalars"), include_z))

\* type(geometry)([...]) on the rebuilt parts of a collection
RebuiltCollection(geom_type, r) ==
    IF r.exc # "none" THEN [r EXCEPT !.value = NoneGeom]
    ELSE [r EXCEPT !.value = Collection(geom_type, r.value)]

RECURSIVE Transform2(_, _, _, _)
\* _transform2 (single_vec) and _transform2_multi_vec (not single_vec), which
\* differ in how a single part is handled
Transform2(geometry, transformation, include_z, single_vec) ==
    IF geometry.geom_type = "None"
    THEN Outcome("AttributeError", NoneGeom, <<>>)
    ELSE IF is_empty(geometry) THEN Outcome("none", geometry, <<>>)
    ELSE IF geometry.geom_type \in SimpleTypes \cup {"Polygon"}
    THEN (IF single_vec
          THEN transform_rebuild_single_part(geometry, transformation, include_z)
          ELSE RebuildSinglePartMultiVec(geometry, transformation.kind, include_z))
    ELSE RebuiltCollection(geometry.geom_type,
             SeqOutcome([i \in 1..Len(geometry.geoms) |->
                            Transform2(geometry.geoms[i], transformation,
                                       include_z, single_vec)]))

_transform2(geometry, transformation, include_z) ==
    Transform2(geometry, transformation, include_z, TRUE)

_transform2_multi_vec(geometry, transformation, include_z) ==
    Transform2(geometry, transformation, include_z, FALSE)

\* ------------------------------------------------------------- transform
\* shapely.get_coordinate_dimension(geometry) == 3, element by element
Is3D(g) == g.geom_type # "None" /\ g.has_z

\* the geometry a wrapper returns for one element
Element(r) ==
    [r EXCEPT !.value = IF r.exc = "none" THEN r.value.items[1] ELSE NoneGeom]

\* what the vectorized wrapper returns: an array of the elements' results
\* (a single one when the argument was a single geometry)
AsArray(container, v) ==
    IF v.exc # "none" THEN v
    ELSE [v EXCEPT !.value =
             Arg(IF container = "scalar" THEN "scalar" ELSE "ndarray", v.value)]

\* what the rebuild wrapper returns for a single geometry
AsScalar(r2) ==
    IF r2.exc # "none" THEN [r2 EXCEPT !.value = <<>>]
    ELSE [r2 EXCEPT !.value = Arg("scalar", <<r2.value>>)]

\* transform_wrapper(geometry, transformation, include_z) for one element of
\* a vectorized call
Wrapper(g, kind, include_z, single_vec, rebuild) ==
    CASE rebuild /\ single_vec -> _transform2(g, Wrapped(kind, "array"), include_z)
      [] rebuild /\ ~single_vec ->
             _transform2_multi_vec(g, Wrapped(kind, "array"), include_z)
      [] ~rebuild /\ single_vec ->
             Element(_transform(Arg("scalar", <<g>>), Wrapped(kind, "array"),
                                include_z))
      [] OTHER ->
             Element(_transform_multi_vec(Arg("scalar", <<g>>),
                                          Wrapped(kind, "array"), include_z))

\* np.frompyfunc(transform_wrapper, 3, 1): the wrapper applied to the
\* elements one after the other; include_z is a sequence, one flag each
Vectorized(items, kind, include_z, single_vec, rebuild) ==
    SeqOutcome([i \in 1..Len(items) |->
                   Wrapper(items[i], kind, include_z[i], single_vec, rebuild)])

\* a plausible slip: with rebuild=False the flag of the first element is used
\* for the whole batch, also when the elements differ
transform_flag1(geometry, transformation, include_z, single_vec, rebuild) ==
    LET n == Len(geometry.items)
        flags == [i \in 1..n |-> IF include_z = -1 THEN Is3D(geometry.items[i])
                                  ELSE include_z # 0]
        is_array == include_z = -1 /\ geometry.container # "scalar"
        flag == IF include_z = -1 THEN flags[1] ELSE include_z # 0
        vectorize == rebuild /\ (geometry.container # "scalar"
                                 \/ geometry.items[1].geom_type = "None")
    IN  IF ~rebuild /\ is_array /\ n = 0
        THEN Outcome("IndexError", <<>>, <<>>)
        ELSE IF vectorize
        THEN AsArray(geometry.container,
                     Vectorized(geometry.items, transformation, flags, single_vec,
                                rebuild))
        ELSE IF rebuild
        THEN AsScalar(Wrapper(geometry.items[1], transformation, flag, single_vec,
                              TRUE))
        ELSE IF single_vec
        THEN _transform(geometry, Wrapped(transformation, "array"), flag)
        ELSE _transform_multi_vec(geometry, Wrapped(transformation, "array"), flag)

\* include_z is 1 (True), 0 (False) or -1 ("only if three-dimensional")
transform(geometry, transformation, include_z, single_vec, rebuild) ==
    LET n == Len(geometry.items)
        \* include_z after line 119: one flag for each element
        flags == [i \in 1..n |-> IF include_z = -1 THEN Is3D(geometry.items[i])
                                  ELSE include_z # 0]
        \* an array of flags only when -1 was given with a batch
        is_array == include_z = -1 /\ geometry.container # "scalar"
        uniform == \A i \in 1..n : flags[i] = flags[1]
        \* the one flag of a call that is not vectorized
        flag == IF include_z = -1 THEN flags[1] ELSE include_z # 0
        vectorize == IF rebuild
                     THEN geometry.container # "scalar"
                          \/ geometry.items[1].geom_type = "None"
                     ELSE is_array /\ ~uniform
    IN  IF ~rebuild /\ is_array /\ n = 0
        THEN Outcome("IndexError", <<>>, <<>>)
        ELSE IF vectorize
        THEN AsArray(geometry.container,
                     Vectorized(geometry.items, transformation, flags, single_vec,
                                rebuild))
        ELSE IF rebuild
        THEN AsScalar(Wrapper(geometry.items[1], transformation, flag, single_vec,
                              TRUE))
        ELSE IF single_vec
        THEN _transform(geometry, Wrapped(transformation, "array"), flag)
        ELSE _transform_multi_vec(geometry, Wrapped(transformation, "array"), flag)

\* ------------------------------------------------------ float64 rounding
\* The bits of the significand.  float64 has 53; the model keeps the format
\* and scales it down, so that sums that round are within reach.
MantissaBits == 8

Abs(v) == IF v < 0 THEN -v ELSE v

RECURSIVE BitLength(_)
BitLength(n) == IF n = 0 THEN 0 ELSE 1 + BitLength(n \div 2)

\* the nearest representable value, ties to even
Round(v) ==
    LET a == Abs(v)
        e == BitLength(a) - MantissaBits
        q == 2 ^ e
        m == a \div q
        rem == a % q
        up == 2 * rem > q \/ (2 * rem = q /\ m % 2 = 1)
        r == (IF up THEN m + 1 ELSE m) * q
    IN  IF e <= 0 THEN v ELSE IF v < 0 THEN -r ELSE r

Fadd(a, b) == Round(a + b)
Fsub(a, b) == Round(a - b)
Fmul(a, b) == Round(a * b)

RECURSIVE Fsum(_, _)
\* np.sum of a short array: the terms added one after the other
Fsum(acc, terms) ==
    IF terms = <<>> THEN acc ELSE Fsum(Fadd(acc, Head(terms)), Tail(terms))

\* ------------------------------------------------------------------ cga.py
\* The result is given in halves: the value n stands for the float n / 2.0
\* (the division by 2.0 is exact).  A ring of fewer than two coordinates has
\* no coords[1]: IndexError, here the exc of the result.
SignedAreaTerms(coords) ==
    LET n == Len(coords)
        xs == [i \in 1..(n + 1) |-> IF i <= n THEN coords[i][1] ELSE coords[2][1]]
        ys == [i \in 1..(n + 1) |-> IF i <= n THEN coords[i][2] ELSE coords[2][2]]
    IN  [k \in 1..(n - 1) |-> Fmul(xs[k + 1], Fsub(ys[k + 2], ys[k]))]

\* a plausible slip: the appended neighbour is coords[0], not coords[1]
signed_area_wrap0(ring) ==
    LET coords == ring.coords
        n == Len(coords)
        xs == [i \in 1..(n + 1) |-> IF i <= n THEN coords[i][1] ELSE coords[1][1]]
        ys == [i \in 1..(n + 1) |-> IF i <= n THEN coords[i][2] ELSE coords[1][2]]
    IN  Fsum(0, [k \in 1..(n - 1) |-> Fmul(xs[k + 1], Fsub(ys[k + 2], ys[k]))])

\* a plausible slip: y is read from the last column, not from the second
signed_area_lastcol(ring) ==
    LET coords == ring.coords
        n == Len(coords)
        k == Len(coords[1])
        xs == [i \in 1..(n + 1) |-> IF i <= n THEN coords[i][1] ELSE coords[2][1]]
        ys == [i \in 1..(n + 1) |-> IF i <= n THEN coords[i][k] ELSE coords[2][k]]
    IN  Fsum(0, [i \in 1..(n - 1) |-> Fmul(xs[i + 1], Fsub(ys[i + 2], ys[i]))])

signed_area(ring) == Fsum(0, SignedAreaTerms(ring.coords))

\* a plausible slip: a ring of zero area is not counter-clockwise (> for >=)
_is_ccw_fallback_strict(geometry) ==
    IF geometry.geom_type = "None" THEN FALSE
    ELSE IF geometry.geom_type \in {"LinearRing", "LineString"}
    THEN (IF Len(geometry.coords) < 4 THEN FALSE
          ELSE signed_area(geometry) > 0)
    ELSE FALSE

\* _is_ccw_fallback for one geometry or None
_is_ccw_fallback(geometry) ==
    IF geometry.geom_type = "None" THEN FALSE
    ELSE IF geometry.geom_type \in {"LinearRing", "LineString"}
    THEN (IF Len(geometry.coords) < 4 THEN FALSE
          ELSE signed_area(geometry) >= 0)
    ELSE FALSE

\* ... and for a batch: the results element by element
is_ccw_batch(geoms) == [i \in 1..Len(geoms) |-> _is_ccw_fallback(geoms[i])]

\* a plausible slip: the rings whose flag is true are the ones reversed
PolygonRingsOf_swapped(geometry, ccw) ==
    LET rings == <<exterior(geometry)>> \o interiors(geometry)
        is_ccw == is_ccw_batch(rings)
        inverted == [is_ccw EXCEPT ![1] = ~is_ccw[1]]
        reverse_rings == IF ccw THEN [i \in 1..Len(rings) |-> ~inverted[i]]
                         ELSE inverted
    IN  [i \in 1..Len(rings) |->
            IF reverse_rings[i] THEN Reverse(rings[i].coords) ELSE rings[i].coords]

\* a plausible slip: the flag of the exterior ring is not inverted
PolygonRingsOf_noinvert(geometry, ccw) ==
    LET rings == <<exterior(geometry)>> \o interiors(geometry)
        is_ccw == is_ccw_batch(rings)
        reverse_rings == IF ccw THEN [i \in 1..Len(rings) |-> ~is_ccw[i]]
                         ELSE is_ccw
    IN  [i \in 1..Len(rings) |->
            IF reverse_rings[i] THEN rings[i].coords ELSE Reverse(rings[i].coords)]

\* The ring as Polygon's constructor gets it: the LinearRing itself, or the
\* list of its coordinates reversed
PolygonRingsOf(geometry, ccw) ==
    LET rings == <<exterior(geometry)>> \o interiors(geometry)
        is_ccw == is_ccw_batch(rings)
        inverted == [is_ccw EXCEPT ![1] = ~is_ccw[1]]
        reverse_rings == IF ccw THEN [i \in 1..Len(rings) |-> ~inverted[i]]
                         ELSE inverted
    IN  [i \in 1..Len(rings) |->
            IF reverse_rings[i] THEN rings[i].coords ELSE Reverse(rings[i].coords)]

\* a plausible slip: the polygon is rebuilt from its exterior ring alone
force_ccw_shell(geometry, ccw) ==
    IF geometry.geom_type = "Polygon"
    THEN Polygon(PolygonRingsOf(geometry, ccw)[1], <<>>)
    ELSE geometry

\* a plausible slip: line strings and linear rings are turned around as well
force_ccw_lines(geometry, ccw) ==
    IF geometry.geom_type \in {"LineString", "LinearRing"}
    THEN [geometry EXCEPT !.coords = Reverse(geometry.coords)]
    ELSE geometry

RECURSIVE force_ccw(_, _)
force_ccw(geometry, ccw) ==
    IF geometry.geom_type \in {"MultiPolygon", "GeometryCollection"}
    THEN Collection(geometry.geom_type,
                    [i \in 1..Len(geometry.geoms) |-> force_ccw(geometry.geoms[i], ccw)])
    ELSE IF geometry.geom_type = "Polygon"
    THEN LET rings == PolygonRingsOf(geometry, ccw) IN
         Polygon(rings[1], Tail(rings))
    ELSE geometry

\* a plausible slip: sign > 0.0 for sign >= 0.0
orient_strict(geom, sign) == force_ccw(geom, sign > 0)

\* polygon.py: orient(geom, sign) is force_ccw(geom, sign >= 0.0)
orient(geom, sign) == force_ccw(geom, sign >= 0)

\* ------------------------------------------------- the caller's inputs
Pt2 == Ords \X Ords

\* the generated 3D tuple over a grid point: a Z that differs from point to
\* point and from every x and y
Lift(p) == <<p[1], p[2], ZBase + p[1] + 2 * p[2]>>
LiftSeq(coords) == [i \in 1..Len(coords) |-> Lift(coords[i])]

RECURSIVE Lift3D(_)
\* the 3D geometry over a 2D one
Lift3D(g) ==
    CASE g.geom_type \in SimpleTypes ->
             [g EXCEPT !.has_z = (g.coords # <<>>), !.coords = LiftSeq(g.coords)]
      [] g.geom_type = "Polygon" ->
             [g EXCEPT !.has_z = (g.rings # <<>>),
                       !.rings = [i \in 1..Len(g.rings) |-> LiftSeq(g.rings[i])]]
      [] OTHER -> [g EXCEPT !.geoms = [i \in 1..Len(g.geoms) |-> Lift3D(g.geoms[i])]]

Origin == <<0, 0>>

Points2D == {Point(<<>>)} \cup {Point(<<p>>) : p \in Pt2}
LineStrings2D == {LineString(<<>>)} \cup {LineString(c) : c \in SeqsOf(Pt2, 2)}
\* the triangles with a corner at the origin, in both orientations
Triangles ==
    {CloseRing(<<Origin, p, q>>) : p, q \in Pt2 \ {Origin}} \ 
    {CloseRing(<<Origin, p, p>>) : p \in Pt2}
LinearRings2D == {LinearRing(<<>>)} \cup {LinearRing(c) : c \in Triangles}
Polygons2D ==
    {Polygon(<<>>, <<>>)} \cup
    {Polygon(shell, holes) : shell \in Triangles, holes \in SeqsUpTo(Triangles, MaxHoles)}

\* the children a generated collection is made of
KidPoints == {Point(<<<<x, x>>>>) : x \in Ords} \cup {Point(<<>>)}
KidLines == {LineString(<<Origin, <<1, y>>>>) : y \in Ords}
KidPolygons ==
    {Polygon(<<Origin, <<1, 0>>, <<1, 1>>, Origin>>, holes) :
        holes \in SeqsUpTo({<<Origin, <<0, 1>>, <<1, 1>>, Origin>>}, MaxHoles)}

Multis2D ==
    {Collection("MultiPoint", g) : g \in SeqsUpTo(KidPoints, MaxGeoms)} \cup
    {Collection("MultiLineString", g) : g \in SeqsUpTo(KidLines, MaxGeoms)} \cup
    {Collection("MultiPolygon", g) : g \in SeqsUpTo(KidPolygons, MaxGeoms)}

\* collections of mixed children, one of them a nested collection
KidMixed ==
    {Point(<<<<1, 0>>>>), LineString(<<Origin, <<1, 1>>>>)} \cup KidPolygons \cup
    {Collection("MultiPoint", <<Point(<<<<0, 1>>>>), Point(<<<<1, 1>>>>)>>),
     Collection("GeometryCollection",
                <<LineString(<<<<1, 0>>, <<0, 1>>>>), Point(<<>>)>>)}
Collections2D ==
    {Collection("GeometryCollection", g) : g \in SeqsUpTo(KidMixed, MaxGeoms)}

Geometries2D ==
    Points2D \cup LineStrings2D \cup LinearRings2D \cup Polygons2D \cup
    Multis2D \cup Collections2D
Geometries == Geometries2D \cup {Lift3D(g) : g \in Geometries2D}

\* the elements of a generated batch: null, empty, 2D and 3D geometries
BatchItems ==
    {NoneGeom, Point(<<>>), Point(<<<<1, 0>>>>), Lift3D(Point(<<<<0, 1>>>>)),
     LineString(<<Origin, <<1, 1>>>>),
     Lift3D(LineString(<<<<1, 0>>, <<0, 1>>>>))}
    \cup KidPolygons
    \cup {Collection("GeometryCollection", <<Point(<<<<1, 1>>>>), Polygon(<<>>, <<>>)>>)}

Inputs ==
    {Arg("scalar", <<g>>) : g \in Geometries \cup {NoneGeom}} \cup
    {Arg(c, items) : c \in {"list", "ndarray"}, items \in SeqsUpTo(BatchItems, MaxBatch)}

\* ---- the inputs of the orientation algorithms
\* a coordinate so large that a sum with 1 is rounded
Big == 2 ^ MantissaBits
PtBig == (Ords \cup {Big}) \X Ords

\* most coordinates of a generated line, and of a ring before it is closed
MaxLineLen == 4
MaxRingPts == 4

\* line strings of any shape, closed or not, over the grid
CgaLines == {LineString(c) : c \in SeqsUpTo(Pt2, MaxLineLen)}
\* closed rings of three and more corners, also of large coordinates
CgaRings ==
    {LinearRing(c) : c \in UNION {SeqsOf(PtBig, k) : k \in 3..MaxRingPts}}
    \cup {LinearRing(<<>>)}

\* the rings of generated polygons: a corner at the origin, every winding,
\* also rings of no area
AnchoredRings == {CloseRing(<<Origin, p, q>>) : p, q \in Pt2}
Squares ==
    {CloseRing(<<Origin, p, q, r>>) : p, q, r \in Pt2 \ {Origin}}
CgaPolygons ==
    {Polygon(<<>>, <<>>)} \cup
    {Polygon(shell, holes) : shell \in AnchoredRings \cup Squares,
                             holes \in SeqsUpTo(AnchoredRings, MaxHoles)}

\* children of generated collections: both windings outside, and inside a
\* counter-clockwise ring or one of no area
CgaKidPolygons ==
    {Polygon(shell, holes) :
        shell \in {<<Origin, <<1, 0>>, <<1, 1>>, Origin>>,
                   <<Origin, <<1, 1>>, <<1, 0>>, Origin>>},
        holes \in SeqsUpTo({<<Origin, <<1, 0>>, <<0, 1>>, Origin>>,
                            <<Origin, Origin, <<1, 0>>, Origin>>}, MaxHoles)}
CgaCollections ==
    {Collection("MultiPolygon", g) : g \in SeqsUpTo(CgaKidPolygons, MaxGeoms)} \cup
    {Collection("GeometryCollection", g) :
        g \in SeqsUpTo({Point(<<<<1, 0>>>>), Polygon(<<>>, <<>>),
                        LineString(<<Origin, <<0, 1>>, <<1, 1>>, Origin>>),
                        Polygon(<<Origin, <<0, 1>>, <<1, 1>>, Origin>>, <<>>),
                        Collection("MultiPolygon",
                            <<Polygon(<<Origin, <<0, 1>>, <<1, 1>>, <<1, 0>>, Origin>>,
                                      <<>>)>>)},
                       MaxGeoms)}

\* rings whose area sums round: a corner at (0, 1), the others anywhere, also
\* far away; and the polygons that have one as their shell or as their hole
BigRings == {CloseRing(<<<<0, 1>>, p, q, r>>) : p \in {<<1, 0>>, <<1, 1>>},
                                               q, r \in PtBig}
CgaBigPolygons ==
    {Polygon(shell, <<>>) : shell \in BigRings} \cup
    {Polygon(<<Origin, <<1, 0>>, <<1, 1>>, Origin>>, <<hole>>) : hole \in BigRings}

CgaGeometries ==
    LET flat == CgaLines \cup CgaRings \cup CgaPolygons \cup CgaCollections
                \cup CgaBigPolygons
                \cup Points2D \cup Multis2D
    IN  flat \cup {Lift3D(g) : g \in CgaPolygons \cup CgaCollections}

\* the elements of a batch handed to is_ccw
CgaBatchItems ==
    {NoneGeom, Point(<<<<1, 0>>>>), LinearRing(<<>>),
     LinearRing(<<Origin, <<1, 0>>, <<1, 1>>>>),
     LinearRing(<<Origin, <<1, 1>>, <<1, 0>>>>),
     LineString(<<Origin, <<1, 0>>, Origin>>),
     Polygon(<<Origin, <<1, 0>>, <<1, 1>>, Origin>>, <<>>)}

CgaInputs ==
    {Arg("scalar", <<g>>) : g \in CgaGeometries \cup {NoneGeom}} \cup
    {Arg("list", items) : items \in SeqsUpTo(CgaBatchItems, MaxBatch)}

\* the buffers a caller hands to set_coordinates: every row the same tuple,
\* so that rings stay closed
FillRow(ncols) == [j \in 1..ncols |-> 4 + j]
MaxRows == 3
CallerBuffers ==
    {Buffer2([i \in 1..n |-> FillRow(k)], k) : n \in 0..MaxRows, k \in 1..4} \cup
    {Buffer(<<k>>, <<FillRow(k)>>) : k \in 1..4} \cup
    {Buffer(<<>>, <<FillRow(1)>>), Buffer(<<1, 1, 2>>, <<>>), Buffer(<<2, 1, 3>>, <<>>)}

\* ------------------------------------------------------- the state machine
VARIABLES
    given,      \* the `geometry` argument as the caller made it
    geometry,   \* the caller's `geometry` object now
    op,         \* the operation applied last ("none" before the first)
    args,       \* the other arguments of that call
    result,     \* its outcome: [exc, value]
    prior,      \* the outcome of the call before it, when there was one
    calls       \* the invocations of the mapping function it made

vars == <<given, geometry, op, args, result, prior, calls>>

NoArgs == [include_z |-> 0, return_index |-> FALSE, coordinates |-> Buffer(<<>>, <<>>),
           transformation |-> "none", single_vec |-> TRUE, rebuild |-> FALSE,
           ccw |-> TRUE, sign |-> 1]

Init ==
    /\ given \in Inputs
    /\ geometry = given
    /\ op = "none"
    /\ args = NoArgs
    /\ result = Ok(<<>>)
    /\ prior = Ok(<<>>)
    /\ calls = <<>>

CountCoordinates ==
    /\ op = "none"
    /\ op' = "count_coordinates"
    /\ result' = Ok(count_coordinates(geometry))
    /\ UNCHANGED <<given, geometry, args, prior, calls>>

GetCoordinates ==
    /\ op = "none"
    /\ \E include_z \in BOOLEAN, return_index \in BOOLEAN :
          /\ args' = [args EXCEPT !.include_z = IF include_z THEN 1 ELSE 0,
                                  !.return_index = return_index]
          /\ result' = [exc |-> "none",
                        value |-> get_coordinates(geometry, include_z),
                        index |-> IF return_index THEN lib_get_index(geometry)
                                  ELSE <<>>]
    /\ op' = "get_coordinates"
    /\ UNCHANGED <<given, geometry, prior, calls>>

\* set_coordinates with a buffer the caller made
SetCoordinates ==
    /\ op = "none"
    /\ \E coordinates \in CallerBuffers :
          LET r == set_coordinates(geometry, coordinates) IN
          /\ args' = [args EXCEPT !.coordinates = coordinates]
          /\ result' = [exc |-> r.exc, value |-> r.value]
          /\ geometry' = r.geometry
    /\ op' = "set_coordinates"
    /\ UNCHANGED <<given, prior, calls>>

\* set_coordinates with the buffer get_coordinates just returned
SetCoordinatesBack ==
    /\ op = "get_coordinates"
    /\ LET r == set_coordinates(geometry, result.value) IN
          /\ args' = [args EXCEPT !.coordinates = result.value]
          /\ result' = [exc |-> r.exc, value |-> r.value]
          /\ geometry' = r.geometry
    /\ op' = "set_coordinates_back"
    /\ UNCHANGED <<given, prior, calls>>

\* transform: the caller's object is not written (_transform copies the
\* array, the rebuild path builds new geometries)
Transform ==
    /\ op = "none"
    /\ \E transformation \in Transformations, include_z \in {-1, 0, 1},
          single_vec \in BOOLEAN, rebuild \in BOOLEAN :
          LET r == transform(geometry, transformation, include_z, single_vec, rebuild)
          IN  /\ args' = [args EXCEPT !.transformation = transformation,
                                      !.include_z = include_z,
                                      !.single_vec = single_vec,
                                      !.rebuild = rebuild]
              /\ result' = [exc |-> r.exc, value |-> r.value, retried |-> r.retried]
              /\ calls' = r.calls
    /\ op' = "transform"
    /\ UNCHANGED <<given, geometry, prior>>

Next ==
    \/ CountCoordinates
    \/ GetCoordinates
    \/ SetCoordinates
    \/ SetCoordinatesBack
    \/ Transform

Spec == Init /\ [][Next]_vars


\* ------------------------------------ the state machine of the cga calls
InitCga ==
    /\ given \in CgaInputs
    /\ geometry = given
    /\ op = "none"
    /\ args = NoArgs
    /\ result = Ok(<<>>)
    /\ prior = Ok(<<>>)
    /\ calls = <<>>

\* signed_area(ring), in halves; a geometry with no coords or with fewer
\* than two of them makes it raise
SignedAreaOf(g) ==
    IF g.geom_type \notin {"LinearRing", "LineString"} THEN Raise("NotImplementedError")
    ELSE IF Len(g.coords) < 2 THEN Raise("IndexError")
    ELSE Ok(signed_area(g))

SignedArea ==
    /\ op = "none"
    /\ given.container = "scalar"
    /\ geometry.items[1].geom_type \in {"LinearRing", "LineString"}
    /\ op' = "signed_area"
    /\ result' = SignedAreaOf(geometry.items[1])
    /\ UNCHANGED <<given, geometry, args, prior, calls>>

\* the caller reverses the point order of the ring and asks again
SignedAreaReversed ==
    /\ op = "signed_area"
    /\ op' = "signed_area_reversed"
    /\ geometry' = Arg("scalar",
                       <<[geometry.items[1] EXCEPT
                             !.coords = Reverse(geometry.items[1].coords)]>>)
    /\ prior' = result
    /\ result' = SignedAreaOf(geometry'.items[1])
    /\ UNCHANGED <<given, args, calls>>

\* the caller gives every point of the ring a Z value and asks again
SignedAreaLifted ==
    /\ op = "signed_area"
    /\ op' = "signed_area_lifted"
    /\ \E dz \in {0, 1} :
          geometry' = Arg("scalar",
                          <<[geometry.items[1] EXCEPT
                                !.has_z = (geometry.items[1].coords # <<>>),
                                !.coords = [i \in 1..Len(geometry.items[1].coords) |->
                                               <<geometry.items[1].coords[i][1],
                                                 geometry.items[1].coords[i][2],
                                                 ZBase + dz * i>>]]>>)
    /\ prior' = result
    /\ result' = SignedAreaOf(geometry'.items[1])
    /\ UNCHANGED <<given, args, calls>>

\* is_ccw (the reference implementation) on one geometry, None or a batch
IsCcw ==
    /\ op = "none"
    /\ op' = "is_ccw"
    /\ result' = Ok(IF given.container = "scalar"
                    THEN _is_ccw_fallback(geometry.items[1])
                    ELSE is_ccw_batch(geometry.items))
    /\ UNCHANGED <<given, geometry, args, prior, calls>>

ForceCcw ==
    /\ op = "none"
    /\ given.container = "scalar"
    /\ geometry.items[1].geom_type # "None"
    /\ \E ccw \in BOOLEAN :
          /\ args' = [args EXCEPT !.ccw = ccw]
          /\ result' = Ok(force_ccw(geometry.items[1], ccw))
    /\ op' = "force_ccw"
    /\ UNCHANGED <<given, geometry, prior, calls>>

\* the caller hands the result to force_ccw once more, with the same ccw
ForceCcwAgain ==
    /\ op = "force_ccw"
    /\ op' = "force_ccw_again"
    /\ prior' = result
    /\ result' = Ok(force_ccw(result.value, args.ccw))
    /\ UNCHANGED <<given, geometry, args, calls>>

Signs == {-1, 0, 1}

Orient ==
    /\ op = "none"
    /\ given.container = "scalar"
    /\ geometry.items[1].geom_type # "None"
    /\ \E sign \in Signs :
          /\ args' = [args EXCEPT !.sign = sign]
          /\ result' = Ok(orient(geometry.items[1], sign))
    /\ op' = "orient"
    /\ UNCHANGED <<given, geometry, prior, calls>>

NextCga ==
    \/ SignedArea
    \/ SignedAreaReversed
    \/ SignedAreaLifted
    \/ IsCcw
    \/ ForceCcw
    \/ ForceCcwAgain
    \/ Orient

SpecCga == InitCga /\ [][NextCga]_vars


\* ------------------------------------------------------------ properties
Items(v) == v.items

RECURSIVE Flat2D(_)
\* no part of the geometry has a third dimension
Flat2D(g) == ~g.has_z /\ \A i \in 1..Len(g.geoms) : Flat2D(g.geoms[i])

RECURSIVE Skeleton(_)
\* the structure of a geometry without its coordinates: variant, length of
\* each coordinate sequence, rings and children in order
Skeleton(g) ==
    [geom_type |-> g.geom_type,
     coords |-> Len(g.coords),
     rings |-> [i \in 1..Len(g.rings) |-> Len(g.rings[i])],
     geoms |-> [i \in 1..Len(g.geoms) |-> Skeleton(g.geoms[i])]]

Skeletons(items) == [i \in 1..Len(items) |-> Skeleton(items[i])]

\* the rows and columns set_coordinates sees in the caller's buffer
BufferRows(b) == IF Len(b.shape) = 2 THEN b.shape[1] ELSE 1
BufferCols(b) ==
    CASE Len(b.shape) = 2 -> b.shape[2]
      [] Len(b.shape) = 1 -> b.shape[1]
      [] OTHER -> 1

\* C1: scattering the buffer extracted with include_z=True back into the
\* geometry it came from gives that geometry again: same coordinates in the
\* same order, same rings and children, same dimensionality (a 2D geometry,
\* read with a NaN third column, comes back 2D)
C1_RoundTrip ==
    (op = "set_coordinates_back" /\ args.include_z = 1) =>
        /\ result.exc = "none"
        /\ Items(result.value) = Items(given)
        /\ result.value.container =
               (IF given.container = "scalar" THEN "scalar" ELSE "ndarray")

\* a 2D Polygon with a hole has made the round trip and come back 2D
C1_Witness ==
    /\ op = "set_coordinates_back" /\ args.include_z = 1
    /\ given.container = "scalar"
    /\ given.items[1].geom_type = "Polygon"
    /\ ~given.items[1].has_z
    /\ Len(given.items[1].rings) = 2
    /\ result.value.items[1].rings[2][2] = <<1, 1>>

\* C2: count_coordinates equals the number of rows get_coordinates returns,
\* with and without the third column, for one geometry and for a batch with
\* null entries and empty geometries
C2_Cardinality ==
    /\ op = "count_coordinates" =>
           \A include_z \in BOOLEAN :
               result.value = Len(get_coordinates(given, include_z).rows)
    /\ op = "get_coordinates" =>
           /\ result.value.shape[1] = count_coordinates(given)
           /\ Len(result.value.rows) = count_coordinates(given)

\* a batch of a null entry and a geometry of coordinates has been counted
C2_Witness ==
    /\ op = "count_coordinates"
    /\ given.container = "list"
    /\ Len(given.items) = 2
    /\ given.items[1] = NoneGeom
    /\ result.value = 4

\* C3: set_coordinates raises its shape error exactly when the buffer has
\* more than two dimensions, a row count other than count_coordinates, or a
\* column count other than 2 and 3; and when it raises, the caller's array
\* is as it was
C3_ShapeError ==
    op = "set_coordinates" =>
        /\ result.exc = "ValueError" <=>
               \/ Len(args.coordinates.shape) > 2
               \/ BufferRows(args.coordinates) # count_coordinates(given)
               \/ BufferCols(args.coordinates) \notin {2, 3}
        /\ result.exc \in {"none", "ValueError"}
        /\ result.exc = "ValueError" => geometry = given

\* a buffer of the right columns and too few rows has been refused for a
\* numpy array of geometries
C3_Witness ==
    /\ op = "set_coordinates"
    /\ result.exc = "ValueError"
    /\ given.container = "ndarray"
    /\ Len(args.coordinates.shape) = 2
    /\ args.coordinates.shape[2] = 3
    /\ args.coordinates.shape[1] < count_coordinates(given)
    /\ args.coordinates.shape[1] > 0

\* what _transform refuses in a value the function returned
BadReturn(c) ==
    /\ ~c.raised
    /\ \/ ~c.ret.is_ndarray
       \/ c.ret.dtype # "float64"
       \/ c.ret.shape # c.shape

\* C4: transform with rebuild=False and single_vec=True: when the function
\* returns something that is no float64 array of the shape it was given, the
\* call raises, returns no geometry and leaves the caller's input alone;
\* when every return has the shape given, the output has the coordinate
\* count and the structure of the input
C4_TransformCardinality ==
    (op = "transform" /\ ~args.rebuild /\ args.single_vec) =>
        /\ (\E i \in 1..Len(calls) : BadReturn(calls[i])) =>
               /\ result.exc = "ValueError"
               /\ result.value = <<>>
               /\ geometry = given
        /\ (calls # <<>> /\ \A i \in 1..Len(calls) :
                               ~calls[i].raised /\ ~BadReturn(calls[i])) =>
               /\ result.exc = "none"
               /\ count_coordinates(result.value) = count_coordinates(given)
               /\ Skeletons(Items(result.value)) = Skeletons(Items(given))

\* a function that returned one coordinate too few has been refused
C4_Witness ==
    /\ op = "transform" /\ ~args.rebuild /\ args.single_vec
    /\ args.transformation = "drop_last"
    /\ count_coordinates(given) > 1
    /\ result.exc = "ValueError"

\* C5: transform with rebuild=False and the identity returns the 2D input
\* again, coordinate by coordinate, ring by ring, child by child; for every
\* include_z and both ways of calling the function (include_z = -1 on a
\* batch of no geometries is the case of C19)
C5_IdentityTransform ==
    (/\ op = "transform" /\ ~args.rebuild
     /\ args.transformation = "identity"
     /\ \A i \in 1..Len(given.items) : Flat2D(given.items[i])
     /\ ~(args.include_z = -1 /\ given.items = <<>>)) =>
        /\ result.exc = "none"
        /\ Items(result.value) = Items(given)

\* a Polygon with a hole has gone through the identity
C5_Witness ==
    /\ op = "transform" /\ ~args.rebuild
    /\ args.transformation = "identity"
    /\ given.container = "scalar"
    /\ given.items[1].geom_type = "Polygon"
    /\ ~given.items[1].has_z
    /\ Len(given.items[1].rings) = 2
    /\ result.exc = "none"
    /\ result.value.items[1].rings[2][2] = <<1, 1>>

HasNull(items) == \E i \in 1..Len(items) : items[i] = NoneGeom

\* C6: null is data: with a function that fails on nothing, transform of
\* null is null and transform of a batch with null entries is a batch of the
\* same length with null at those places, whatever rebuild and single_vec
C6_NullsAreData ==
    (op = "transform" /\ args.transformation = "identity" /\ HasNull(given.items)) =>
        /\ result.exc = "none"
        /\ Len(Items(result.value)) = Len(given.items)
        /\ \A i \in 1..Len(given.items) :
               (Items(result.value)[i] = NoneGeom) <=> (given.items[i] = NoneGeom)

\* C7: transform with rebuild=False and single_vec=False (one call of
\* _transform_multi_vec): the per-coordinate retry is made exactly when the
\* first invocation of the function raised; a first invocation that returns
\* a value of the wrong shape or type makes the call raise, with no second
\* invocation and no geometry
C7_RetryOnlyIfRaised ==
    (op = "transform" /\ ~args.rebuild /\ ~args.single_vec /\ args.include_z # -1) =>
        /\ result.retried <=> calls[1].raised
        /\ BadReturn(calls[1]) =>
               /\ result.exc = "ValueError"
               /\ Len(calls) = 1
               /\ result.value = <<>>


\* a closed ring of at least 4 coordinates whose area has been asked for
\* in both point orders
ReversedClosedRing ==
    /\ op = "signed_area_reversed"
    /\ Len(given.items[1].coords) >= 4
    /\ given.items[1].coords[1] = given.items[1].coords[Len(given.items[1].coords)]

\* Coordinates up to this magnitude keep signed_area exact for rings of at
\* most 16 coordinates: a difference of two is below twice it, a product
\* below 2^(MantissaBits - 4), and 16 of them sum to at most 2^MantissaBits.
\* For float64 it is 2^24.
ExactCoord == 2 ^ ((MantissaBits - 5) \div 2)

ExactRing(coords) ==
    /\ Len(coords) <= 16
    /\ \A i \in 1..Len(coords) :
           Abs(coords[i][1]) <= ExactCoord /\ Abs(coords[i][2]) <= ExactCoord

\* C8 as stated: for every closed ring of at least 4 coordinates,
\* signed_area of the reversed ring is the negation of signed_area of the ring
C8_ReversalNegates ==
    ReversedClosedRing => result.value = -prior.value

\* C8 as amended: the same for the closed rings of 4 to 16 coordinates whose
\* x and y are integers small enough for every product and sum to be exact
C8_ReversalNegatesExact ==
    (ReversedClosedRing /\ ExactRing(given.items[1].coords)) =>
        result.value = -prior.value

\* a clockwise square has been reversed: area -1 (two halves), then +1
C8_Witness ==
    /\ ReversedClosedRing
    /\ ExactRing(given.items[1].coords)
    /\ Len(given.items[1].coords) = 5
    /\ prior.value = -2
    /\ result.value = 2

\* what the claim says is_ccw is for one geometry
ExpectedCcw(g) ==
    /\ g.geom_type \in {"LinearRing", "LineString"}
    /\ Len(g.coords) >= 4
    /\ signed_area(g) >= 0

\* C9: the reference is_ccw is true exactly for a LinearRing or LineString of
\* at least 4 coordinates whose signed_area is >= 0 (zero included), false
\* for shorter rings, for null and for every other variant, and on a batch it
\* gives these answers element by element in batch order; it never raises
C9_IsCcw ==
    op = "is_ccw" =>
        /\ result.exc = "none"
        /\ given.container = "scalar" =>
               (result.value <=> ExpectedCcw(given.items[1]))
        /\ given.container # "scalar" =>
               /\ Len(result.value) = Len(given.items)
               /\ \A i \in 1..Len(given.items) :
                      result.value[i] <=> ExpectedCcw(given.items[i])

\* a closed ring of 4 coordinates and no area has been found counter-clockwise
C9_Witness ==
    /\ op = "is_ccw"
    /\ given.container = "scalar"
    /\ given.items[1].geom_type = "LinearRing"
    /\ Len(given.items[1].coords) = 4
    /\ signed_area(given.items[1]) = 0
    /\ result.value = TRUE

\* C10: force_ccw(force_ccw(G, True), True) is force_ccw(G, True), ring by
\* ring and point by point, for every geometry, rings of no area included
C10_Idempotent ==
    (op = "force_ccw_again" /\ args.ccw) => result.value = prior.value


RECURSIVE PolygonsIn(_)
\* the polygons of a geometry: itself, or those among its children at any depth
PolygonsIn(g) ==
    CASE g.geom_type = "Polygon" -> {g}
      [] g.geom_type \in {"MultiPolygon", "GeometryCollection"} ->
             UNION {PolygonsIn(g.geoms[i]) : i \in 1..Len(g.geoms)}
      [] OTHER -> {}

\* the exterior ring winds as asked (or has no area), the interior rings the
\* other way (or have no area)
Polarity(polygon, ccw) ==
    LET sign == IF ccw THEN 1 ELSE -1 IN
    /\ sign * signed_area(exterior(polygon)) >= 0
    /\ \A i \in 1..Len(interiors(polygon)) :
           sign * signed_area(interiors(polygon)[i]) <= 0

ExactPolygon(polygon) ==
    \A i \in 1..Len(polygon.rings) : ExactRing(polygon.rings[i])

C12_PassThrough ==
    op = "force_ccw" =>
        /\ result.exc = "none"
        /\ given.items[1].geom_type \in
               {"Point", "LineString", "LinearRing", "MultiPoint", "MultiLineString"}
           => result.value = given.items[1]
        /\ is_empty(given.items[1]) =>
               /\ result.value.geom_type = given.items[1].geom_type
               /\ is_empty(result.value)

\* a clockwise line string that is a closed loop has come back as it was
C12_Witness ==
    /\ op = "force_ccw" /\ args.ccw
    /\ given.items[1].geom_type = "LineString"
    /\ Len(given.items[1].coords) >= 4
    /\ signed_area(given.items[1]) < 0
    /\ result.value = given.items[1]

\* C13: orient(G, sign) returns what force_ccw(G, sign >= 0) returns, for
\* every geometry and every sign: exteriors counter-clockwise for sign = 0 and
\* for positive signs, clockwise for negative signs
C13_OrientIsForceCcw ==
    op = "orient" =>
        /\ result.exc = "none"
        /\ result.value = force_ccw(given.items[1], args.sign >= 0)
        /\ \A polygon \in PolygonsIn(result.value) :
               (polygon.rings # <<>> /\ ExactPolygon(polygon)) =>
                   Polarity(polygon, args.sign >= 0)

\* orient with sign = 0 has turned a clockwise shell around
C13_Witness ==
    /\ op = "orient" /\ args.sign = 0
    /\ given.items[1].geom_type = "Polygon"
    /\ given.items[1].rings # <<>>
    /\ ExactPolygon(given.items[1])
    /\ signed_area(exterior(given.items[1])) < 0
    /\ signed_area(exterior(result.value)) > 0

\* the flag of ring i (1 the exterior) as the claim computes it: is_ccw of the
\* ring, inverted for the exterior, and inverted once more when ccw is true
RingFlag(polygon, i, ccw) ==
    LET flag == _is_ccw_fallback(LinearRing(polygon.rings[i]))
        inverted == IF i = 1 THEN ~flag ELSE flag
    IN  IF ccw THEN ~inverted ELSE inverted

ForcedPolygon ==
    /\ op = "force_ccw"
    /\ given.items[1].geom_type = "Polygon"
    /\ given.items[1].rings # <<>>

\* C14 as stated: force_ccw reverses the coordinates of exactly the rings
\* whose flag is true and leaves the rings whose flag is false as they were
C14_ReversesFlagged ==
    ForcedPolygon =>
        /\ Len(result.value.rings) = Len(given.items[1].rings)
        /\ \A i \in 1..Len(given.items[1].rings) :
               result.value.rings[i] =
                   IF RingFlag(given.items[1], i, args.ccw)
                   THEN Reverse(given.items[1].rings[i])
                   ELSE given.items[1].rings[i]

\* C14 as amended: force_ccw leaves the rings whose flag is true as they were
\* and reverses the coordinates of exactly the rings whose flag is false
C14_ReversesUnflagged ==
    ForcedPolygon =>
        /\ Len(result.value.rings) = Len(given.items[1].rings)
        /\ \A i \in 1..Len(given.items[1].rings) :
               result.value.rings[i] =
                   IF RingFlag(given.items[1], i, args.ccw)
                   THEN given.items[1].rings[i]
                   ELSE Reverse(given.items[1].rings[i])

\* a shell whose flag is false has been reversed and a hole whose flag is true
\* left as it was, neither of them reading the same in both directions
C14_Witness ==
    /\ ForcedPolygon
    /\ Len(given.items[1].rings) = 2
    /\ ~RingFlag(given.items[1], 1, args.ccw)
    /\ RingFlag(given.items[1], 2, args.ccw)
    /\ given.items[1].rings[1] # Reverse(given.items[1].rings[1])
    /\ given.items[1].rings[2] # Reverse(given.items[1].rings[2])
    /\ result.value.rings[1] = Reverse(given.items[1].rings[1])
    /\ result.value.rings[2] = given.items[1].rings[2]

RECURSIVE SameStructure(_, _)
\* out is built like in: the same variant; for a Polygon the same number of
\* rings, every one the ring of in at its position or that ring with its
\* points in reverse order (Z values with them); for a collection the same
\* number of children, built like the children of in, in their order
SameStructure(in, out) ==
    /\ out.geom_type = in.geom_type
    /\ out.has_z = in.has_z
    /\ out.coords = in.coords
    /\ Len(out.rings) = Len(in.rings)
    /\ \A i \in 1..Len(in.rings) :
           /\ out.rings[i] \in {in.rings[i], Reverse(in.rings[i])}
           /\ out.rings[i][1] = out.rings[i][Len(out.rings[i])]
           /\ out.rings[i][1] = in.rings[i][1]
    /\ Len(out.geoms) = Len(in.geoms)
    /\ \A i \in 1..Len(in.geoms) : SameStructure(in.geoms[i], out.geoms[i])

\* C15: for both values of ccw the result of force_ccw is built like its
\* argument: same rings in the same positions, each as it was or reversed,
\* closed, with its Z values; same collection variant, same children in order
C15_StructurePreserved ==
    op = "force_ccw" =>
        /\ result.exc = "none"
        /\ SameStructure(given.items[1], result.value)

\* a three-dimensional polygon with a hole inside a collection has had a ring
\* reversed
C15_Witness ==
    /\ op = "force_ccw"
    /\ given.items[1].geom_type \in {"MultiPolygon", "GeometryCollection"}
    /\ \E i \in 1..Len(given.items[1].geoms) :
           /\ given.items[1].geoms[i].geom_type = "Polygon"
           /\ given.items[1].geoms[i].has_z
           /\ Len(given.items[1].geoms[i].rings) = 2
           /\ result.value.geoms[i].rings[2] # given.items[1].geoms[i].rings[2]
           /\ result.value.geoms[i].rings[2] = Reverse(given.items[1].geoms[i].rings[2])

\* ---- the shoelace sum and the winding of a ring, in exact integers
XYShoelace(coords) ==
    SumSeq([i \in 1..(Len(coords) - 1) |->
               coords[i][1] * coords[i + 1][2] - coords[i + 1][1] * coords[i][2]])

\* twice the area of the triangle a, b, c: positive for a left turn at b
Cross(a, b, c) == (b[1] - a[1]) * (c[2] - a[2]) - (b[2] - a[2]) * (c[1] - a[1])

Between(v, a, b) == (a <= v /\ v <= b) \/ (b <= v /\ v <= a)

\* the point p lies on the segment from a to b
OnSegment(p, a, b) ==
    /\ Cross(a, b, p) = 0
    /\ Between(p[1], a[1], b[1])
    /\ Between(p[2], a[2], b[2])

\* the segments a-b and c-d have a point in common
Intersect(a, b, c, d) ==
    \/ /\ Cross(a, b, c) * Cross(a, b, d) < 0
       /\ Cross(c, d, a) * Cross(c, d, b) < 0
    \/ OnSegment(c, a, b) \/ OnSegment(d, a, b)
    \/ OnSegment(a, c, d) \/ OnSegment(b, c, d)

\* A closed ring is simple: its corners are distinct, edges that follow one
\* another meet in their common corner only, and no other two edges meet
SimpleRing(coords) ==
    LET m == Len(coords) - 1
        v(i) == <<coords[((i - 1) % m) + 1][1], coords[((i - 1) % m) + 1][2]>>
    IN  /\ m >= 3
        /\ \A i, j \in 1..m : i < j => v(i) # v(j)
        /\ \A i \in 1..m :
               /\ ~OnSegment(v(i), v(i + 1), v(i + 2))
               /\ ~OnSegment(v(i + 2), v(i), v(i + 1))
        /\ \A i, j \in 1..m :
               (i + 1 < j /\ ~(i = 1 /\ j = m)) =>
                   ~Intersect(v(i), v(i + 1), v(j), v(j + 1))

\* The turn at the lowest corner (the leftmost of the lowest): left for a
\* counter-clockwise simple ring, right for a clockwise one
Turn(coords) ==
    LET m == Len(coords) - 1
        v(i) == <<coords[((i - 1) % m) + 1][1], coords[((i - 1) % m) + 1][2]>>
        low == CHOOSE k \in 1..m :
                   \A j \in 1..m :
                       \/ v(k)[2] < v(j)[2]
                       \/ (v(k)[2] = v(j)[2] /\ v(k)[1] <= v(j)[1])
    IN  Cross(v(low + m - 1), v(low), v(low + 1))

\* the area of a closed ring of at least 4 coordinates has been asked for
\* (of the ring as given, or with Z values added)
AreaOfClosedRing ==
    /\ op \in {"signed_area", "signed_area_lifted"}
    /\ Len(given.items[1].coords) >= 4
    /\ given.items[1].coords[1] = given.items[1].coords[Len(given.items[1].coords)]

Shoelace ==
    /\ result.exc = "none"
    /\ result.value = XYShoelace(given.items[1].coords)
    /\ SimpleRing(given.items[1].coords) =>
           /\ Turn(given.items[1].coords) > 0 => result.value > 0
           /\ Turn(given.items[1].coords) < 0 => result.value < 0

\* C16 as stated: for every closed ring of at least 4 integer coordinates,
\* twice signed_area is the shoelace sum of x_i * y_(i+1) - x_(i+1) * y_i, Z
\* values change nothing, and the sign is positive for a counter-clockwise
\* simple ring and negative for a clockwise one
C16_Shoelace ==
    /\ AreaOfClosedRing => Shoelace
    /\ op = "signed_area_lifted" => result = prior

\* C16 as amended: the same for the rings of at most 16 coordinates whose x
\* and y are small enough for every product and sum to be exact (Z values
\* change nothing for any ring)
C16_ShoelaceExact ==
    /\ (AreaOfClosedRing /\ ExactRing(given.items[1].coords)) => Shoelace
    /\ op = "signed_area_lifted" => result = prior

\* the area of a simple clockwise square has come out as -1 (two halves), with
\* and without Z values
C16_Witness ==
    /\ op = "signed_area_lifted"
    /\ Len(given.items[1].coords) = 5
    /\ ExactRing(given.items[1].coords)
    /\ SimpleRing(given.items[1].coords)
    /\ Turn(given.items[1].coords) < 0
    /\ geometry.items[1].has_z
    /\ prior.value = -2
    /\ result.value = -2

\* ---- transform on a batch, element by element
\* what include_z resolves to for element i of the batch
ResolvedFlag(i) ==
    IF args.include_z = -1 THEN Is3D(given.items[i]) ELSE args.include_z # 0

\* the coordinates of element i as the mapping function is to get them
ElementRows(i) ==
    lib_get_coordinates(Arg("scalar", <<given.items[i]>>), ResolvedFlag(i)).rows

\* the invocation c got the coordinates of one element of the batch (all of
\* them, or one of them when the function is called coordinate by coordinate)
OfOneElement(c) ==
    \E i \in 1..Len(given.items) :
        \/ c.mode \in {"array", "axes"} /\ c.rows = ElementRows(i)
        \/ /\ c.mode = "scalars"
           /\ \E k \in 1..Len(ElementRows(i)) : c.rows = <<ElementRows(i)[k]>>

\* the result at position i is that of transform on element i alone
AsAlone(i) ==
    LET alone == transform(Arg("scalar", <<given.items[i]>>), args.transformation,
                           args.include_z, args.single_vec, FALSE)
    IN  /\ alone.exc = "none"
        /\ result.value.items[i] = alone.value.items[1]

BatchTransformed ==
    /\ op = "transform" /\ ~args.rebuild
    /\ given.container # "scalar"
    /\ Len(given.items) >= 2

FlagsDiffer ==
    \E i, j \in 1..Len(given.items) : ResolvedFlag(i) # ResolvedFlag(j)

ElementByElement ==
    /\ \A k \in 1..Len(calls) : OfOneElement(calls[k])
    /\ result.exc = "none" =>
           /\ Len(result.value.items) = Len(given.items)
           /\ \A i \in 1..Len(given.items) : AsAlone(i)

\* C17 as stated: with rebuild=False on a batch of two or more, whenever
\* single_vec is false or include_z resolves differently for different
\* elements, no invocation of the mapping function gets coordinates of more
\* than one element and the result at position i is that of element i alone
C17_ElementByElement ==
    (BatchTransformed /\ (~args.single_vec \/ FlagsDiffer)) => ElementByElement

\* C17 as amended: the same whenever include_z resolves differently for
\* different elements, whatever single_vec is
C17_ElementByElementIfFlagsDiffer ==
    (BatchTransformed /\ FlagsDiffer) => ElementByElement

\* a batch of a 2D and a 3D point has been shifted, each in an invocation of
\* its own
C17_Witness ==
    /\ BatchTransformed /\ FlagsDiffer
    /\ args.transformation = "shift"
    /\ args.single_vec
    /\ Len(given.items) = 2
    /\ Len(ElementRows(1)) = 1 /\ Len(ElementRows(2)) = 1
    /\ result.exc = "none"
    /\ Len(calls) = 2
    /\ calls[1].rows = ElementRows(1)
    /\ calls[2].rows = ElementRows(2)

\* ---- transform with rebuild=True, part by part
RECURSIVE Parts(_)
\* the atomic parts of a geometry depth first: a Point, LineString or
\* LinearRing itself, a Polygon's exterior and then its interiors in ring
\* order, the parts of a collection's children in child order
Parts(g) ==
    CASE g.geom_type \in SimpleTypes -> <<g>>
      [] g.geom_type = "Polygon" -> <<exterior(g)>> \o interiors(g)
      [] OTHER -> Concat([i \in 1..Len(g.geoms) |-> Parts(g.geoms[i])])

HasCoordinates(part) == part.coords # <<>>

AtomicParts(g) == SelectSeq(Parts(g), HasCoordinates)

\* the coordinates of the non-empty atomic parts of element i, as the
\* mapping function is to get them one part after the other
ExpectedInvocations(i) ==
    LET parts == AtomicParts(given.items[i])
    IN  [k \in 1..Len(parts) |->
            lib_get_coordinates(Arg("scalar", <<parts[k]>>), ResolvedFlag(i)).rows]

RECURSIVE SameVariant(_, _)
\* the same variant with as many rings and children, the children likewise
SameVariant(in, out) ==
    /\ out.geom_type = in.geom_type
    /\ Len(out.rings) = Len(in.rings)
    /\ Len(out.geoms) = Len(in.geoms)
    /\ \A i \in 1..Len(in.geoms) : SameVariant(in.geoms[i], out.geoms[i])

\* the part was built from these rows (a ring may have been closed)
BuiltFrom(part, rows) ==
    \/ part.coords = rows
    \/ part.geom_type = "LinearRing" /\ part.coords = Append(rows, rows[1])

ReturnedRows(c) == c.ret.rows # <<>>

RebuiltPerPart ==
    LET n == Len(given.items)
        expected == Concat([i \in 1..n |-> ExpectedInvocations(i)])
        built == Concat([i \in 1..n |-> AtomicParts(result.value.items[i])])
        returned == SelectSeq(calls, ReturnedRows)
    IN  /\ Len(calls) = Len(expected)
        /\ \A k \in 1..Len(calls) :
               calls[k].mode = "array" /\ calls[k].rows = expected[k]
        /\ \A i \in 1..n :
               /\ SameVariant(given.items[i], result.value.items[i])
               /\ is_empty(given.items[i]) =>
                      result.value.items[i] = given.items[i]
        /\ Len(built) = Len(returned)
        /\ \A k \in 1..Len(built) : BuiltFrom(built[k], returned[k].ret.rows)

\* C18: transform with rebuild=True and single_vec=True that returns has
\* invoked the mapping function once per non-empty atomic part, depth first,
\* each time with that part's coordinates; the result has the variant, the
\* number of children and of rings of the argument, every part built from
\* what its own invocation returned; an empty geometry comes back as it is
\* and the function is not invoked for it
C18_RebuildPerPart ==
    /\ (op = "transform" /\ args.rebuild /\ args.single_vec
            /\ result.exc = "none") =>
           /\ Len(result.value.items) = Len(given.items)
           /\ RebuiltPerPart
    /\ (op = "transform" /\ args.rebuild /\ args.single_vec
            /\ \A i \in 1..Len(given.items) :
                   given.items[i].geom_type # "None" /\ is_empty(given.items[i])) =>
           /\ result.exc = "none"
           /\ calls = <<>>
           /\ result.value.items = given.items

\* a collection with a polygon that has a hole and with an empty child has
\* been rebuilt from shifted coordinates: one invocation for the exterior, one
\* for the hole, one for every other non-empty part and none for the empty one
C18_Witness ==
    /\ op = "transform" /\ args.rebuild /\ args.single_vec
    /\ args.transformation = "shift"
    /\ result.exc = "none"
    /\ given.container = "scalar"
    /\ given.items[1].geom_type = "GeometryCollection"
    /\ Len(Parts(given.items[1])) > Len(AtomicParts(given.items[1]))
    /\ \E i \in 1..Len(given.items[1].geoms) :
           Len(given.items[1].geoms[i].rings) = 2
    /\ Len(calls) = Len(AtomicParts(given.items[1]))
    /\ Len(calls) >= 3
    /\ result.value.items[1] # given.items[1]

\* ---- transform on an empty batch
\* C19: for each of the three include_z settings transform with
\* rebuild=False and the identity mapping on a batch of no geometries returns
\* a batch of no geometries and does not fail
C19_EmptyBatch ==
    (/\ op = "transform" /\ ~args.rebuild
     /\ args.transformation = "identity"
     /\ given.container # "scalar"
     /\ given.items = <<>>) =>
        /\ result.exc = "none"
        /\ result.value.container # "scalar"
        /\ result.value.items = <<>>

=============================================================================
